---- MODULE Spec2Model ----
\* A model of GeminiClient (lib_src/helm_v2/clients/gemini_client.py): the
\* translation of a Request into the Gemini payload, the cache key, the
\* dispatch through the Cache Store to the Provider Transport and the
\* normalisation of the response into a RequestResult.
\*
\* Several make_request calls run concurrently on one client.  All of them are
\* given the same Request object (chosen in Init); what may differ between two
\* calls is the content of the attached file, which the environment rewrites.
EXTENDS Integers, Sequences, FiniteSets, TLC

VARIABLES
    request,      \* the Request handed to every make_request call
    fs,           \* file system: location -> bytes
    writes,       \* number of file rewrites so far
    cache,        \* Cache Store: set of entries [key, state, value, error, owner]
    pc,           \* per call: position in make_request
    raw_request,  \* per call: <<>> or <<the payload built>>
    cache_key,    \* per call: <<>> or <<the key built>>
    response,     \* per call: <<>> or <<the raw response obtained from cache.get>>
    cached,       \* per call: the flag returned by cache.get
    handed,       \* per call: the completions handed to truncate_sequence
    result,       \* per call: <<>> or <<the RequestResult returned>>
    raised,       \* per call: <<>> or <<the exception that left make_request>>
    invoked,      \* per call: number of Provider Transport invocations made
    returned,     \* per call: <<>> or <<what the transport returned to this call>>
    trace,        \* per call: what the call touched so far, in order
    attached,     \* per call: the file system as it was at each step that reads it
    pred          \* per call: the calls that had ended when this one began

vars == <<request, fs, writes, cache, pc, raw_request, cache_key, response, cached,
          handed, result, raised, invoked, returned, trace, attached, pred>>

----------------------------------------------------------------------------
\* Bounds of the model.

\* Longest multimodal prompt (number of media objects).
MaxMedia == 1
\* Number of times the environment rewrites the attached file.
MaxWrites == 1
\* request.max_tokens.
MaxTokens == 2

\* The concurrent make_request calls.
Calls == {"c1", "c2"}

----------------------------------------------------------------------------
\* Data.

Locations == {"a.png"}
\* File contents, as sequences of bytes.
FileContents == {<<72, 105>>, <<72, 111, 33>>}
\* What the attached file holds before the first call.
InitialContent == <<72, 105>>

TEXT_TYPE == "text"

\* Text is a sequence of characters.
PromptText == <<"Q">>

\* MediaObject: type, text (text type), location and content_type (files).
\* location "" is "no location".
TextMedia == [type |-> TEXT_TYPE, text |-> <<"t">>, location |-> "", content_type |-> "text/plain"]
ImageMedia == [type |-> "image", text |-> <<>>, location |-> "a.png", content_type |-> "image/png"]
ImageNoLocation == [type |-> "image", text |-> <<>>, location |-> "", content_type |-> "image/png"]
AudioMedia == [type |-> "audio", text |-> <<>>, location |-> "a.png", content_type |-> "audio/wav"]
MediaObjects == {TextMedia, ImageMedia, ImageNoLocation, AudioMedia}

SeqsUpTo(S, n) == UNION {[1..k -> S] : k \in 0..n}

\* request.multimodal_prompt: <<>> is None, otherwise the media objects.
MultimodalPrompts == SeqsUpTo(MediaObjects, MaxMedia)

\* request.messages: <<>> is None/empty.  A content is a string or a list of parts.
StrMessage == [role |-> "user", content |-> [kind |-> "str", text |-> <<"m">>, parts |-> <<>>]]
ListMessage == [role |-> "model", content |-> [kind |-> "list", text |-> <<>>, parts |-> <<[text |-> <<"p">>]>>]]
MessageLists == {<<>>, <<StrMessage, ListMessage>>}

\* well_formed is what request.validate() will find; only a multimodal prompt
\* can be structurally invalid.
Requests ==
    {r \in [embedding : BOOLEAN,
            echo_prompt : BOOLEAN,
            messages : MessageLists,
            multimodal_prompt : MultimodalPrompts,
            well_formed : BOOLEAN,
            prompt : {PromptText},
            temperature : {0},
            top_p : {1},
            max_tokens : {MaxTokens}] :
        r.multimodal_prompt = <<>> => r.well_formed}

\* What the Provider Transport may return for a generation request
\* (resp.to_dict()) ...
CandidateA == [content |-> [parts |-> <<[text |-> <<"4">>], [text |-> <<"2">>]>>], finish_reason |-> "STOP"]
CandidateB == [content |-> [parts |-> <<[text |-> <<"a">>], [function_call |-> "f"], [text |-> <<"b", "c">>]>>]]
ChatResponses ==
    {[candidates |-> <<CandidateB, CandidateA>>],
     [candidates |-> <<>>],
     [prompt_feedback |-> "blocked"]}
\* ... and for an embedding request (genai.embed_content).
EmbeddingResponses ==
    {[embedding |-> [values |-> <<1, 2>>]],
     [embedding |-> [values |-> <<>>]],
     [error |-> "no vector"]}

\* str(e) of the exceptions the transport may raise.
ErrorMessages == {"", "429 quota exceeded"}

----------------------------------------------------------------------------
\* Helpers: Python dict access and string joining.

\* d.get(k, default) on a dict modelled as a record.
Get(d, k, default) == IF k \in DOMAIN d THEN d[k] ELSE default

RECURSIVE Join(_)
\* "".join(texts)
Join(texts) == IF texts = <<>> THEN <<>> ELSE Head(texts) \o Join(Tail(texts))

\* str.lower() on the finish-reason codes.
Lower(s) ==
    CASE s = "STOP" -> "stop"
      [] s = "MAX_TOKENS" -> "max_tokens"
      [] OTHER -> s

\* base64 of one group of 1..3 bytes: four sextets, 64 standing for the pad '='.
B64Group(b) ==
    LET n == Len(b)
        v == b[1] * 65536 + (IF n >= 2 THEN b[2] ELSE 0) * 256 + (IF n >= 3 THEN b[3] ELSE 0)
    IN  <<v \div 262144,
          (v \div 4096) % 64,
          IF n >= 2 THEN (v \div 64) % 64 ELSE 64,
          IF n >= 3 THEN v % 64 ELSE 64>>

RECURSIVE b64encode(_)
\* base64.b64encode(bytes).decode("utf-8"), as the sequence of alphabet indices.
b64encode(b) ==
    IF Len(b) = 0 THEN <<>>
    ELSE IF Len(b) <= 3 THEN B64Group(b)
    ELSE B64Group(SubSeq(b, 1, 3)) \o b64encode(SubSeq(b, 4, Len(b)))

----------------------------------------------------------------------------
\* Request Normalizer: _make_chat_raw_request.

\* The branch of the media loop that appends a part.
Supported(m) == m.type = TEXT_TYPE \/ (m.type = "image" /\ m.location # "")

\* The part appended for a supported media object; the image file is read now.
MediaPart(m, files) ==
    IF m.type = TEXT_TYPE
    THEN [text |-> m.text]
    ELSE [inline_data |-> [mime_type |-> m.content_type, data |-> b64encode(files[m.location])]]

\* The parts of one message: a string is wrapped, a list is passed through.
MessageParts(content) ==
    IF content.kind = "str" THEN <<[text |-> content.text]>>
    ELSE IF content.kind = "list" THEN content.parts
    ELSE <<>>

\* The error naming the media object's content type instead of its type.
UnsupportedMediaByContentType(m) ==
    [type |-> "ValueError", msg |-> <<"Unsupported media type for Gemini: ", m.content_type>>]

\* ValueError(f"Unsupported media type for Gemini: {media_object.type}")
UnsupportedMedia(m) ==
    [type |-> "ValueError", msg |-> <<"Unsupported media type for Gemini: ", m.type>>]

\* request.validate(): fails on a structurally invalid multimodal prompt.
Validate(req) == req.well_formed

GenerationConfig(req) ==
    [temperature |-> req.temperature, top_p |-> req.top_p, max_output_tokens |-> req.max_tokens]

\* The outcome of _make_chat_raw_request: the payload, or the exception raised.
\* The media loop raises at the first unsupported media object.
_make_chat_raw_request(req, files) ==
    LET mm == req.multimodal_prompt
        bad == {i \in 1..Len(mm) : ~Supported(mm[i])}
        first == CHOOSE i \in bad : \A j \in bad : i <= j
        payload(contents) ==
            [contents |-> contents, generation_config |-> GenerationConfig(req)]
    IN  IF req.messages # <<>>
        THEN [raised |-> <<>>,
              value |-> <<payload([i \in 1..Len(req.messages) |->
                                     [role |-> req.messages[i].role,
                                      parts |-> MessageParts(req.messages[i].content)]])>>]
        ELSE IF mm # <<>>
        THEN IF ~Validate(req)
             THEN [raised |-> <<[type |-> "ValidationError", msg |-> <<"invalid request">>]>>,
                   value |-> <<>>]
             ELSE IF bad # {}
             THEN [raised |-> <<UnsupportedMedia(mm[first])>>, value |-> <<>>]
             ELSE [raised |-> <<>>,
                   value |-> <<payload(<<[role |-> "user",
                                          parts |-> [i \in 1..Len(mm) |-> MediaPart(mm[i], files)]]>>)>>]
        ELSE [raised |-> <<>>,
              value |-> <<payload(<<[role |-> "user", parts |-> <<[text |-> req.prompt]>>]>>)>>]

\* The payload of the embedding path.
EmbeddingRawRequest(req) == [prompt |-> req.prompt]

----------------------------------------------------------------------------
\* Cache Key Builder: _get_cache_key.

\* CachingClient.make_cache_key: the structural key of the payload.
make_cache_key(raw, req) == [raw_request |-> raw, multimodal_prompt |-> <<>>]

\* generate_uid_for_multimodal_prompt: a fingerprint of the full ordered
\* multimodal content, file contents included.
generate_uid_for_multimodal_prompt(mm, files) ==
    [i \in 1..Len(mm) |->
        [type |-> mm[i].type,
         text |-> mm[i].text,
         location |-> mm[i].location,
         content |-> IF mm[i].location \in DOMAIN files THEN files[mm[i].location] ELSE <<>>]]

\* _get_cache_key without the fingerprint field.
GetCacheKeyNoFingerprint(raw, req, files) == make_cache_key(raw, req)

_get_cache_key(raw, req, files) ==
    LET key == make_cache_key(raw, req)
    IN  IF req.multimodal_prompt # <<>>
        THEN [key EXCEPT !.multimodal_prompt =
                 <<generate_uid_for_multimodal_prompt(req.multimodal_prompt, files)>>]
        ELSE key

----------------------------------------------------------------------------
\* Response Normalizer.

\* Tokenizer.tokenize: one raw token per character.
Tokenize(text) == [i \in 1..Len(text) |-> <<text[i]>>]

\* truncate_sequence: keeps at most max_tokens tokens, and the text they spell;
\* a completion within the limit is returned unchanged.
truncate_sequence(completion, req) ==
    IF Len(completion.tokens) <= req.max_tokens
    THEN completion
    ELSE LET kept == SubSeq(completion.tokens, 1, req.max_tokens)
         IN  [completion EXCEPT !.tokens = kept,
                                !.text = Join([i \in 1..Len(kept) |-> kept[i].text])]

\* The text of a candidate: its part texts joined in order, "" for a part
\* without text.
CandidateText(cand) ==
    LET parts == Get(Get(cand, "content", [none |-> 0]), "parts", <<>>)
    IN  Join([i \in 1..Len(parts) |-> Get(parts[i], "text", <<>>)])

FinishReason(cand) ==
    LET finish_reason == Get(cand, "finish_reason", "")
    IN  IF finish_reason # "" THEN Lower(finish_reason) ELSE finish_reason

\* The completion with the generated text tokenized after the echo.
GeneratedOutputEchoFirst(cand, req) ==
    LET text == IF req.echo_prompt THEN req.prompt \o CandidateText(cand) ELSE CandidateText(cand)
        raw_tokens == Tokenize(text)
    IN  [text |-> text,
         logprob |-> 0,
         tokens |-> [i \in 1..Len(raw_tokens) |-> [text |-> raw_tokens[i], logprob |-> 0]],
         finish_reason |-> [reason |-> FinishReason(cand)]]

\* The GeneratedOutput built for one candidate, before truncation.
GeneratedOutput(cand, req) ==
    LET text == CandidateText(cand)
        raw_tokens == Tokenize(text)
    IN  [text |-> IF req.echo_prompt THEN req.prompt \o text ELSE text,
         logprob |-> 0,
         tokens |-> [i \in 1..Len(raw_tokens) |-> [text |-> raw_tokens[i], logprob |-> 0]],
         finish_reason |-> [reason |-> FinishReason(cand)]]

\* The completions of a chat response, before truncation.
Completions(resp, req) ==
    LET cands == Get(resp, "candidates", <<>>)
    IN  [i \in 1..Len(cands) |-> GeneratedOutput(cands[i], req)]

\* RequestResult; an unset optional field (error, error_flags) is <<>>.
RequestResult(success, isCached, error, completions, embedding, error_flags) ==
    [success |-> success, cached |-> isCached, error |-> error,
     completions |-> completions, embedding |-> embedding, error_flags |-> error_flags]

ErrorFlags(is_retriable, is_fatal) == [is_retriable |-> is_retriable, is_fatal |-> is_fatal]

\* A chat success that always reports cached=False.
ChatSuccessNeverCached(completions, isCached) ==
    RequestResult(TRUE, FALSE, <<>>, completions, <<>>, <<>>)

\* The result returned by _make_chat_request after normalisation.
ChatSuccess(completions, isCached) ==
    RequestResult(TRUE, isCached, <<>>, completions, <<>>, <<>>)

\* A chat failure that drops the exception's message.
ChatFailureNoMessage(msg) ==
    RequestResult(FALSE, FALSE, <<"error">>, <<>>, <<>>, <<ErrorFlags(FALSE, FALSE)>>)

\* The result of the except branch of _make_chat_request.
ChatFailure(msg) ==
    RequestResult(FALSE, FALSE, <<msg>>, <<>>, <<>>, <<ErrorFlags(FALSE, FALSE)>>)

\* The result of the except branch of _make_embedding_request: no error_flags.
EmbeddingFailure(msg) ==
    RequestResult(FALSE, FALSE, <<msg>>, <<>>, <<>>, <<>>)

\* The result returned by _make_embedding_request after normalisation.
EmbeddingSuccess(embedding, isCached) ==
    RequestResult(TRUE, isCached, <<>>, <<>>, embedding, <<>>)

\* response["embedding"]["values"] raises KeyError on a missing key.
HasEmbeddingValues(resp) ==
    "embedding" \in DOMAIN resp /\ "values" \in DOMAIN resp.embedding

----------------------------------------------------------------------------
\* Cache Store (self.cache): get(key, compute) with single flight per key.  An
\* entry is in flight while its owner computes; it then holds the value, or
\* the error of the one computation, which every caller of that key observes.

HasEntry(key) == \E e \in cache : e.key = key
Entry(key) == CHOOSE e \in cache : e.key = key

InFlight(key, owner) == [key |-> key, state |-> "inflight", value |-> <<>>, error |-> <<>>, owner |-> owner]
Stored(key, owner, value) == [key |-> key, state |-> "stored", value |-> <<value>>, error |-> <<>>, owner |-> owner]
Failed(key, owner, msg) == [key |-> key, state |-> "failed", value |-> <<>>, error |-> <<msg>>, owner |-> owner]

\* What cache.get finds for a key: "miss", "wait", "hit" or "error".
Lookup(key) ==
    IF ~HasEntry(key) THEN "miss"
    ELSE CASE Entry(key).state = "inflight" -> "wait"
           [] Entry(key).state = "stored" -> "hit"
           [] OTHER -> "error"

----------------------------------------------------------------------------
\* make_request, step by step.

Terminal == {"DONE", "FAILED", "RAISED"}

Touch(c, what) == trace' = [trace EXCEPT ![c] = @ \o what]

\* The result of the except branch of the path the request takes.
Failure(msg) == IF request.embedding THEN EmbeddingFailure(msg) ELSE ChatFailure(msg)

\* make_request dispatches on request.embedding; the generation path builds
\* the payload (_make_chat_raw_request), which may raise outward.
MakeRawRequest(c) ==
    /\ pc[c] = "IDLE"
    /\ pred' = [pred EXCEPT ![c] = {d \in Calls : pc[d] \in Terminal}]
    /\ Touch(c, <<"payload">>)
    /\ attached' = [attached EXCEPT ![c] = <<fs>>]
    /\ IF request.embedding
       THEN /\ raw_request' = [raw_request EXCEPT ![c] = <<EmbeddingRawRequest(request)>>]
            /\ pc' = [pc EXCEPT ![c] = "PAYLOAD_BUILT"]
            /\ UNCHANGED raised
       ELSE LET out == _make_chat_raw_request(request, fs)
            IN  /\ raw_request' = [raw_request EXCEPT ![c] = out.value]
                /\ raised' = [raised EXCEPT ![c] = out.raised]
                /\ pc' = [pc EXCEPT ![c] = IF out.raised = <<>> THEN "PAYLOAD_BUILT" ELSE "RAISED"]
    /\ UNCHANGED <<request, fs, writes, cache, cache_key, response, cached, handed,
                   result, invoked, returned>>

\* cache_key = self._get_cache_key(raw_request, request)
GetCacheKey(c) ==
    /\ pc[c] = "PAYLOAD_BUILT"
    /\ cache_key' = [cache_key EXCEPT ![c] = <<_get_cache_key(raw_request[c][1], request, fs)>>]
    /\ pc' = [pc EXCEPT ![c] = "KEY_BUILT"]
    /\ Touch(c, <<"key">>)
    /\ attached' = [attached EXCEPT ![c] = @ \o <<fs>>]
    /\ UNCHANGED <<request, fs, writes, cache, raw_request, response, cached, handed,
                   result, raised, invoked, returned, pred>>

\* cache.get(cache_key, do_it) when the store answers `found` for the key: a
\* hit returns the stored value with cached=True, a recorded error is raised
\* (and caught by the except branch), and a miss calls do_it.
CacheGetFinding(c, found) ==
    LET key == cache_key[c][1]
    IN  /\ found # "wait"
        /\ CASE found = "hit" ->
                  /\ response' = [response EXCEPT ![c] = Entry(key).value]
                  /\ cached' = [cached EXCEPT ![c] = TRUE]
                  /\ pc' = [pc EXCEPT ![c] = "NORMALIZING_RESPONSE"]
                  /\ Touch(c, <<"get">>)
                  /\ UNCHANGED <<cache, result, invoked>>
             [] found = "error" ->
                  /\ result' = [result EXCEPT ![c] = <<Failure(Entry(key).error[1])>>]
                  /\ pc' = [pc EXCEPT ![c] = "FAILED"]
                  /\ Touch(c, <<"get">>)
                  /\ UNCHANGED <<cache, response, cached, invoked>>
             [] OTHER ->
                  /\ cache' = {e \in cache : e.key # key} \cup {InFlight(key, c)}
                  /\ invoked' = [invoked EXCEPT ![c] = @ + 1]
                  /\ pc' = [pc EXCEPT ![c] = "CALLING_PROVIDER"]
                  /\ Touch(c, <<"get", "transport">>)
                  /\ UNCHANGED <<response, cached, result>>
        /\ UNCHANGED <<request, fs, writes, raw_request, cache_key, handed, raised,
                       returned, attached, pred>>

\* The call of do_it made directly, without asking the Cache Store.
CacheGetBypassed(c) ==
    /\ pc[c] = "KEY_BUILT"
    /\ CacheGetFinding(c, "miss")

\* response, cached = self.cache.get(cache_key, do_it), up to the point where
\* the value is found, the error is raised, or do_it is called.  A call that
\* finds its key in flight waits.
CacheGet(c) ==
    /\ pc[c] = "KEY_BUILT"
    /\ CacheGetFinding(c, Lookup(cache_key[c][1]))

\* do_it returns: the Cache Store stores the response and cache.get returns
\* it with cached=False.
ProviderOK(c, resp) ==
    /\ pc[c] = "CALLING_PROVIDER"
    /\ resp \in (IF request.embedding THEN EmbeddingResponses ELSE ChatResponses)
    /\ cache' = {e \in cache : e.key # cache_key[c][1]} \cup {Stored(cache_key[c][1], c, resp)}
    /\ returned' = [returned EXCEPT ![c] = <<resp>>]
    /\ response' = [response EXCEPT ![c] = <<resp>>]
    /\ cached' = [cached EXCEPT ![c] = FALSE]
    /\ pc' = [pc EXCEPT ![c] = "NORMALIZING_RESPONSE"]
    /\ UNCHANGED <<request, fs, writes, raw_request, cache_key, handed, result, raised,
                   invoked, trace, attached, pred>>

\* do_it raises: the exception leaves cache.get and is caught by the except
\* branch, which returns the failed RequestResult.
ProviderError(c, msg) ==
    /\ pc[c] = "CALLING_PROVIDER"
    /\ msg \in ErrorMessages
    /\ cache' = {e \in cache : e.key # cache_key[c][1]} \cup {Failed(cache_key[c][1], c, msg)}
    /\ result' = [result EXCEPT ![c] = <<Failure(msg)>>]
    /\ pc' = [pc EXCEPT ![c] = "FAILED"]
    /\ UNCHANGED <<request, fs, writes, raw_request, cache_key, response, cached, handed,
                   raised, invoked, returned, trace, attached, pred>>

\* The code after the try block: the response is normalised into the
\* RequestResult.  The embedding path raises KeyError outward when the vector
\* is missing.
Normalize(c) ==
    /\ pc[c] = "NORMALIZING_RESPONSE"
    /\ Touch(c, <<"normalize">>)
    /\ LET resp == response[c][1]
       IN  IF request.embedding
           THEN IF HasEmbeddingValues(resp)
                THEN /\ result' = [result EXCEPT ![c] =
                                      <<EmbeddingSuccess(resp.embedding.values, cached[c])>>]
                     /\ pc' = [pc EXCEPT ![c] = "DONE"]
                     /\ UNCHANGED <<raised, handed>>
                ELSE /\ raised' = [raised EXCEPT ![c] =
                                      <<[type |-> "KeyError", msg |-> <<"embedding">>]>>]
                     /\ pc' = [pc EXCEPT ![c] = "RAISED"]
                     /\ UNCHANGED <<result, handed>>
           ELSE LET completions == Completions(resp, request)
                IN  /\ handed' = [handed EXCEPT ![c] = completions]
                    /\ result' = [result EXCEPT ![c] =
                          <<ChatSuccess([i \in 1..Len(completions) |->
                                            truncate_sequence(completions[i], request)],
                                        cached[c])>>]
                    /\ pc' = [pc EXCEPT ![c] = "DONE"]
                    /\ UNCHANGED raised
    /\ UNCHANGED <<request, fs, writes, cache, raw_request, cache_key, response, cached,
                   invoked, returned, attached, pred>>

\* The files the request attaches.
AttachedLocations ==
    {request.multimodal_prompt[i].location : i \in 1..Len(request.multimodal_prompt)} \ {""}

\* The environment rewrites a file the request attaches.
WriteFile(loc, bytes) ==
    /\ writes < MaxWrites
    /\ loc \in AttachedLocations
    /\ bytes # fs[loc]
    /\ fs' = [fs EXCEPT ![loc] = bytes]
    /\ writes' = writes + 1
    /\ UNCHANGED <<request, cache, pc, raw_request, cache_key, response, cached, handed,
                   result, raised, invoked, returned, trace, attached, pred>>

Init ==
    /\ request \in Requests
    /\ fs = [loc \in Locations |-> InitialContent]
    /\ writes = 0
    /\ cache = {}
    /\ pc = [c \in Calls |-> "IDLE"]
    /\ raw_request = [c \in Calls |-> <<>>]
    /\ cache_key = [c \in Calls |-> <<>>]
    /\ response = [c \in Calls |-> <<>>]
    /\ cached = [c \in Calls |-> FALSE]
    /\ handed = [c \in Calls |-> <<>>]
    /\ result = [c \in Calls |-> <<>>]
    /\ raised = [c \in Calls |-> <<>>]
    /\ invoked = [c \in Calls |-> 0]
    /\ returned = [c \in Calls |-> <<>>]
    /\ trace = [c \in Calls |-> <<>>]
    /\ attached = [c \in Calls |-> <<>>]
    /\ pred = [c \in Calls |-> {}]

Next ==
    \/ \E c \in Calls : MakeRawRequest(c)
    \/ \E c \in Calls : GetCacheKey(c)
    \/ \E c \in Calls : CacheGet(c)
    \/ \E c \in Calls : \E resp \in ChatResponses \cup EmbeddingResponses : ProviderOK(c, resp)
    \/ \E c \in Calls : \E msg \in ErrorMessages : ProviderError(c, msg)
    \/ \E c \in Calls : Normalize(c)
    \/ \E loc \in Locations : \E bytes \in FileContents : WriteFile(loc, bytes)

Spec == Init /\ [][Next]_vars

----------------------------------------------------------------------------
\* Vocabulary of the properties.

RECURSIVE SumInvoked(_)
SumInvoked(S) ==
    IF S = {} THEN 0
    ELSE LET c == CHOOSE x \in S : TRUE IN invoked[c] + SumInvoked(S \ {c})

\* Number of Provider Transport invocations made for a key.
TransportCalls(key) == SumInvoked({c \in Calls : cache_key[c] = <<key>>})

\* The calls whose own transport invocation raised.
TransportRaisedFor(c) == \E e \in cache : e.state = "failed" /\ e.owner = c

\* A media object that is neither text nor an image with a location.
Unsupported(m) == m.type # "text" /\ ~(m.type = "image" /\ m.location # "")
UnsupportedAt == {i \in 1..Len(request.multimodal_prompt) : Unsupported(request.multimodal_prompt[i])}
FirstUnsupported == CHOOSE i \in UnsupportedAt : \A j \in UnsupportedAt : i <= j

\* The request attaches an image file.
HasAttachedImage ==
    \E i \in 1..Len(request.multimodal_prompt) :
        /\ request.multimodal_prompt[i].type = "image"
        /\ request.multimodal_prompt[i].location # ""

\* The call built its key and the files did not change while it built payload and key.
Stable(c) == Len(attached[c]) = 2 /\ attached[c][1] = attached[c][2]

\* The text the provider generated for the candidates of the model.
ExpectedGenerated(cand) ==
    CASE cand = CandidateA -> <<"4", "2">>
      [] cand = CandidateB -> <<"a", "b", "c">>

NotClassified == <<[is_retriable |-> FALSE, is_fatal |-> FALSE]>>

----------------------------------------------------------------------------
\* C1: whenever the Provider Transport call of a request (generation or
\* embedding) raises, make_request does not raise outward and returns a
\* RequestResult with success=false and a non-empty error message.
C1_FailureIsolation ==
    \A c \in Calls :
        TransportRaisedFor(c) =>
            /\ raised[c] = <<>>
            /\ result[c] # <<>>
            /\ result[c][1].success = FALSE
            /\ result[c][1].error # <<>>
            /\ result[c][1].error[1] # ""

\* C2: the same generation request issued twice in sequence, with the first
\* call's transport invocation succeeding, makes exactly one transport
\* invocation for the key and yields two results with identical completions,
\* the first with cached=false and the second with cached=true.
C2_SecondCallIsCached ==
    \A c1, c2 \in Calls :
        ( /\ ~request.embedding
          /\ c1 \in pred[c2]
          /\ cache_key[c2] # <<>>
          /\ cache_key[c1] = cache_key[c2]
          /\ returned[c1] # <<>>
          /\ pc[c1] = "DONE"
          /\ pc[c2] \in Terminal )
        => /\ TransportCalls(cache_key[c1][1]) = 1
           /\ pc[c2] = "DONE"
           /\ result[c1][1].success /\ result[c2][1].success
           /\ result[c1][1].cached = FALSE
           /\ result[c2][1].cached = TRUE
           /\ result[c1][1].completions = result[c2][1].completions

C2_Witness ==
    \E c1, c2 \in Calls :
        /\ ~request.embedding
        /\ c1 \in pred[c2]
        /\ cache_key[c2] # <<>>
        /\ cache_key[c1] = cache_key[c2]
        /\ returned[c1] # <<>>
        /\ pc[c1] = "DONE"
        /\ pc[c2] = "DONE"
        /\ result[c2][1].completions # <<>>

C4_ExactlyOneNonEmpty ==
    \A c \in Calls :
        (result[c] # <<>> /\ result[c][1].success) =>
            IF request.embedding
            THEN result[c][1].embedding # <<>> /\ result[c][1].completions = <<>>
            ELSE result[c][1].completions # <<>> /\ result[c][1].embedding = <<>>

\* C5: a response obtained from the Cache Store (fresh or cached) that
\* misses its expected fields, in particular an embedding response without
\* the 'embedding'/'values' vector, never makes make_request raise: the call
\* returns a failed RequestResult.
C5_MalformedResponseFails ==
    \A c \in Calls :
        ( /\ pc[c] \in Terminal
          /\ response[c] # <<>>
          /\ request.embedding
          /\ ~("embedding" \in DOMAIN response[c][1]) )
        => /\ raised[c] = <<>>
           /\ result[c] # <<>>
           /\ result[c][1].success = FALSE

C7_FailureClassifiedOnBothPaths ==
    \A c \in Calls :
        pc[c] = "FAILED" =>
            /\ result[c][1].success = FALSE
            /\ result[c][1].error = Entry(cache_key[c][1]).error
            /\ result[c][1].error_flags = NotClassified

\* C7 (amended): a failed RequestResult made from a caught transport
\* exception preserves the exception's message on both paths; it carries
\* {is_retriable: false, is_fatal: false} on the generation path and no
\* error flags at all on the embedding path.
C7_FailurePreservesMessage ==
    \A c \in Calls :
        pc[c] = "FAILED" =>
            /\ result[c][1].success = FALSE
            /\ result[c][1].cached = FALSE
            /\ result[c][1].error = Entry(cache_key[c][1]).error
            /\ result[c][1].error_flags = IF request.embedding THEN <<>> ELSE NotClassified

C7_Witness ==
    \E c \in Calls :
        /\ request.embedding
        /\ pc[c] = "FAILED"
        /\ TransportRaisedFor(c)
        /\ result[c][1].error = <<"429 quota exceeded">>

\* C8: two requests that differ only in the bytes of an attached image (same
\* location) derive different cache keys, so neither receives the other's
\* cached response, and two identical requests derive equal keys; on the
\* multimodal path, the messages path and the embedding path alike.
C8_KeysFollowImageBytes ==
    \A c1, c2 \in Calls :
        (Stable(c1) /\ Stable(c2) /\ cache_key[c1] # <<>> /\ cache_key[c2] # <<>>) =>
            /\ (HasAttachedImage /\ attached[c1] # attached[c2]) =>
                  /\ cache_key[c1] # cache_key[c2]
                  /\ response[c2] # <<>> => Entry(cache_key[c2][1]).owner # c1
            /\ attached[c1] = attached[c2] => cache_key[c1] = cache_key[c2]

C8_Witness ==
    \E c1, c2 \in Calls :
        /\ request.messages # <<>>
        /\ HasAttachedImage
        /\ Stable(c1) /\ Stable(c2)
        /\ attached[c1] # attached[c2]
        /\ response[c1] # <<>> /\ response[c2] # <<>>

\* C9: the completion handed to truncation for each candidate has the
\* tokens of the generated text alone (the candidate's part texts joined in
\* order) and, with echo_prompt, the text prompt + generated text; without
\* echo_prompt the text is the generated text.
C9_EchoAfterTokenization ==
    \A c \in Calls :
        (pc[c] = "DONE" /\ ~request.embedding) =>
            LET cands == Get(response[c][1], "candidates", <<>>)
            IN  /\ Len(handed[c]) = Len(cands)
                /\ \A i \in 1..Len(cands) :
                      LET generated == ExpectedGenerated(cands[i])
                      IN  /\ handed[c][i].tokens =
                                [j \in 1..Len(generated) |->
                                    [text |-> <<generated[j]>>, logprob |-> 0]]
                          /\ handed[c][i].text =
                                IF request.echo_prompt
                                THEN request.prompt \o generated
                                ELSE generated

C9_Witness ==
    \E c \in Calls :
        /\ pc[c] = "DONE"
        /\ ~request.embedding
        /\ request.echo_prompt
        /\ Len(handed[c]) = 2
        /\ handed[c][2].text = <<"Q", "4", "2">>

----------------------------------------------------------------------------
\* The per-call state machine.

IsPrefix(s, t) == Len(s) <= Len(t) /\ SubSeq(t, 1, Len(s)) = s

\* The two complete runs of a call: through the transport, or on a cache hit.
MissRun == <<"payload", "key", "get", "transport", "normalize">>
HitRun == <<"payload", "key", "get", "normalize">>


\* The part of the state machine that holds of every call: payload, key and
\* cache query in this order, the transport invoked at most once and only by
\* the call that missed, cached=true only without a transport invocation,
\* FAILED with a failed result, DONE with a successful result through
\* normalisation, and a call waiting only for a key whose transport call is
\* pending.
StateMachine(c) ==
    /\ invoked[c] <= 1
    /\ IsPrefix(trace[c], MissRun) \/ IsPrefix(trace[c], HitRun)
    /\ (invoked[c] = 1) <=> (Len(trace[c]) >= 4 /\ trace[c][4] = "transport")
    /\ invoked[c] = 1 => Entry(cache_key[c][1]).owner = c
    /\ pc[c] = "CALLING_PROVIDER" => trace[c] = SubSeq(MissRun, 1, 4)
    /\ pc[c] = "NORMALIZING_RESPONSE" =>
          /\ response[c] # <<>>
          /\ cached[c] <=> invoked[c] = 0
    /\ pc[c] = "FAILED" =>
          /\ result[c] # <<>> /\ ~result[c][1].success
          /\ Entry(cache_key[c][1]).state = "failed"
          /\ trace[c] \in {SubSeq(MissRun, 1, 4), SubSeq(HitRun, 1, 3)}
    /\ pc[c] = "DONE" =>
          /\ result[c] # <<>> /\ result[c][1].success
          /\ trace[c] \in {MissRun, HitRun}
          /\ result[c][1].cached <=> invoked[c] = 0
    /\ result[c] # <<>> <=> pc[c] \in {"DONE", "FAILED"}
    /\ pc[c] = "KEY_BUILT" =>
          \/ ENABLED CacheGet(c)
          \/ /\ Lookup(cache_key[c][1]) = "wait"
             /\ Entry(cache_key[c][1]).owner # c
             /\ pc[Entry(cache_key[c][1]).owner] = "CALLING_PROVIDER"

\* C10 (as claimed): every call follows the state machine and its terminal
\* states are DONE and FAILED: once the cache key is built, a call ends in no
\* other way.
C10_EveryCallEndsDoneOrFailed ==
    \A c \in Calls :
        /\ StateMachine(c)
        /\ cache_key[c] # <<>> =>
              /\ pc[c] \in {"KEY_BUILT", "CALLING_PROVIDER", "NORMALIZING_RESPONSE",
                            "DONE", "FAILED"}
              /\ raised[c] = <<>>

\* What the code does: every call follows the state machine and ends in
\* exactly one of DONE, FAILED or an exception raised outward; an exception is
\* raised outward only while the payload of a generation request with a
\* multimodal prompt is built (nothing else touched yet), or while an
\* embedding response without a vector is normalised.
CallsEndDoneFailedOrRaised ==
    \A c \in Calls :
        /\ StateMachine(c)
        /\ raised[c] # <<>> <=> pc[c] = "RAISED"
        /\ pc[c] = "RAISED" =>
              \/ /\ trace[c] = <<"payload">>
                 /\ ~request.embedding
                 /\ request.messages = <<>>
                 /\ request.multimodal_prompt # <<>>
                 /\ invoked[c] = 0
              \/ /\ trace[c] \in {MissRun, HitRun}
                 /\ request.embedding
                 /\ ~HasEmbeddingValues(response[c][1])
                 /\ raised[c][1].type = "KeyError"

====
